---------------------------- MODULE Spec2Model ----------------------------
(***************************************************************************)
(* Model of the WiFi client report generator:                              *)
(*   App/report_generator.py            ingest_files, csv_import,          *)
(*                                      normalize_datetime,                *)
(*                                      generate_excel_report,             *)
(*                                      generate_site_report               *)
(*   App/Wifi_Client_Report_Generator.py ReportUI.load_csv,                *)
(*                                      ReportUI.generate_report           *)
(*                                                                         *)
(* A Python str is a sequence of one-character strings, so that strip,     *)
(* split, slicing to 31 characters and strptime act on characters.  A      *)
(* datetime is the record [y, m, d, H, M, S, us].  A DataFrame is the      *)
(* sequence of its rows; a worksheet is its name, the frame it was         *)
(* rendered from and the sequence of the write calls made on it.  An       *)
(* exception is a value of the field "err".                                *)
(***************************************************************************)
EXTENDS Integers, Sequences, FiniteSets, TLC

VARIABLES
    csv_rows,     \* csv_import: the rows csv.reader yields for the file
    csv_out,      \* csv_import: what the call returned or raised
    paths,        \* ingest_files: the files named by file_paths
    ingest_out,   \* ingest_files: what the call returned or raised
    args,         \* generate_excel_report: the arguments of the call
    wb,           \* generate_excel_report: the workbook and how the call ended
    ui            \* ReportUI: data, site_list, date widgets, checkboxes, message

vars == <<csv_rows, csv_out, paths, ingest_out, args, wb, ui>>

---------------------------------------------------------------------------
(* Bounds of the model *)

\* days of the month the timestamps of the inputs lie on: 1..MaxDay
MaxDay == 2
\* records in one call of generate_excel_report
MaxRecords == 2
\* rows of one CSV file
MaxRows == 3
\* cells of one CSV data row
MaxRowLen == 5

---------------------------------------------------------------------------
(* Python str helpers *)

Min(a, b) == IF a < b THEN a ELSE b

IsSpace(c) == c = " "

RECURSIVE lstrip(_)
lstrip(s) == IF s # <<>> /\ IsSpace(Head(s)) THEN lstrip(Tail(s)) ELSE s

RECURSIVE rstrip(_)
rstrip(s) ==
    IF s # <<>> /\ IsSpace(s[Len(s)]) THEN rstrip(SubSeq(s, 1, Len(s) - 1)) ELSE s

\* str.strip()
strip(s) == rstrip(lstrip(s))

\* s[:n]
Slice(s, n) == SubSeq(s, 1, Min(Len(s), n))

\* str.split("|", n=1)[0]: the part before the first pipe, or all of s
RECURSIVE BeforePipe(_)
BeforePipe(s) ==
    IF s = <<>> \/ Head(s) = "|" THEN <<>> ELSE <<Head(s)>> \o BeforePipe(Tail(s))

Digits == <<"0", "1", "2", "3", "4", "5", "6", "7", "8", "9">>

IsDigit(c) == \E i \in 1..10 : Digits[i] = c

DigitVal(c) == (CHOOSE i \in 1..10 : Digits[i] = c) - 1

\* the two-digit number at s[i], s[i+1]
Num2(s, i) == 10 * DigitVal(s[i]) + DigitVal(s[i + 1])

AllDigits(s, idx) == \A i \in idx : IsDigit(s[i])

\* column names of the CSV schema, as the header row spells them
Chars ==
    [location       |-> <<"l","o","c","a","t","i","o","n">>,
     sublocation    |-> <<"s","u","b","l","o","c","a","t","i","o","n">>,
     associate_vlan |-> <<"a","s","s","o","c","i","a","t","e","_","v","l","a","n">>,
     device_mac     |-> <<"d","e","v","i","c","e","_","m","a","c">>,
     client_mac     |-> <<"c","l","i","e","n","t","_","m","a","c">>,
     start_time     |-> <<"s","t","a","r","t","_","t","i","m","e">>,
     end_time       |-> <<"e","n","d","_","t","i","m","e">>,
     client_ip      |-> <<"c","l","i","e","n","t","_","i","p">>,
     client_host_name |-> <<"c","l","i","e","n","t","_","h","o","s","t","_","n","a","m","e">>,
     client_os_name |-> <<"c","l","i","e","n","t","_","o","s","_","n","a","m","e">>,
     bssid          |-> <<"b","s","s","i","d">>,
     ssid           |-> <<"s","s","i","d">>]

---------------------------------------------------------------------------
(* csv_import *)

expected_headers ==
    <<"location", "sublocation", "associate_vlan", "device_mac", "client_mac",
      "start_time", "end_time", "client_ip", "client_host_name", "client_os_name",
      "bssid", "ssid">>

\* key in row
InRow(key, row) == \E i \in 1..Len(row) : row[i] = Chars[key]

\* set(expected_headers[:4]).issubset(row)
IsHeaderRow(row) == \A k \in 1..4 : InRow(expected_headers[k], row)

\* the first loop: the index of the first header row, 0 when the loop ends
\* without a break (headers is then never bound)
HeaderAt(rows) ==
    IF \E i \in 1..Len(rows) : IsHeaderRow(rows[i])
    THEN CHOOSE i \in 1..Len(rows) :
            IsHeaderRow(rows[i]) /\ \A j \in 1..(i - 1) : ~IsHeaderRow(rows[j])
    ELSE 0

\* the keys of header_map
MappedKeys(headers) ==
    {expected_headers[k] : k \in {j \in 1..12 : InRow(expected_headers[j], headers)}}

\* headers.index(key), zero-based
IndexOf(headers, key) ==
    (CHOOSE i \in 1..Len(headers) :
        headers[i] = Chars[key] /\ \A j \in 1..(i - 1) : headers[j] # Chars[key]) - 1

header_map(headers) == [key \in MappedKeys(headers) |-> IndexOf(headers, key)]

\* len(row) < len(header_map): continue
RowSkipped(row, hm) == Len(row) < Cardinality(DOMAIN hm)

\* row[idx] raises IndexError when the row has no cell idx
RowRaises(row, hm) == \E key \in DOMAIN hm : hm[key] >= Len(row)

\* {key: row[idx].strip() for key, idx in header_map.items()}
Entry(row, hm) == [key \in DOMAIN hm |-> strip(row[hm[key] + 1])]

\* the second loop, from row i on
RECURSIVE ImportRows(_, _, _, _)
ImportRows(rows, i, hm, acc) ==
    IF i > Len(rows) THEN [err |-> "none", rows |-> acc]
    ELSE IF RowSkipped(rows[i], hm) THEN ImportRows(rows, i + 1, hm, acc)
    ELSE IF RowRaises(rows[i], hm) THEN [err |-> "IndexError", rows |-> <<>>]
    ELSE ImportRows(rows, i + 1, hm, Append(acc, Entry(rows[i], hm)))

csv_import(rows) ==
    LET h == HeaderAt(rows) IN
    IF h = 0
    THEN [err |-> "NameError", rows |-> <<>>]
    ELSE ImportRows(rows, h + 1, header_map(rows[h]), <<>>)

---------------------------------------------------------------------------
(* ingest_files *)

\* str.lower() on the letters of the file names
Lower(c) ==
    IF c = "C" THEN "c" ELSE IF c = "S" THEN "s" ELSE IF c = "V" THEN "v"
    ELSE IF c = "Z" THEN "z" ELSE IF c = "I" THEN "i" ELSE IF c = "P" THEN "p" ELSE c

\* name.lower().endswith(suffix)
LowerEndsWith(name, suffix) ==
    /\ Len(name) >= Len(suffix)
    /\ \A i \in 1..Len(suffix) : Lower(name[Len(name) - Len(suffix) + i]) = suffix[i]

\* a file is its name and, by what it holds, the rows of a CSV text or the
\* members of an archive ("valid" tells whether zipfile can open it)
IsCsv(p) == LowerEndsWith(p.name, <<".", "c", "s", "v">>)
IsZip(p) == LowerEndsWith(p.name, <<".", "z", "i", "p">>)

\* the CSV files a path contributes, in the order they are imported
RECURSIVE CsvOf(_)
CsvOf(members) ==
    IF members = <<>> THEN <<>>
    ELSE (IF IsCsv(Head(members)) THEN <<Head(members).rows>> ELSE <<>>)
            \o CsvOf(Tail(members))

\* combined_rows.extend(csv_import(...)) over a list of CSV files
RECURSIVE ImportAll(_, _)
ImportAll(files, acc) ==
    IF files = <<>> THEN [err |-> "none", rows |-> acc]
    ELSE LET r == csv_import(Head(files)) IN
         IF r.err # "none" THEN [err |-> r.err, rows |-> <<>>]
         ELSE ImportAll(Tail(files), acc \o r.rows)

RECURSIVE IngestFrom(_, _)
IngestFrom(ps, acc) ==
    IF ps = <<>> THEN [err |-> "none", rows |-> acc]
    ELSE LET p == Head(ps) IN
         IF IsCsv(p)
         THEN LET r == ImportAll(<<p.rows>>, acc) IN
              IF r.err # "none" THEN r ELSE IngestFrom(Tail(ps), r.rows)
         ELSE IF IsZip(p)
         THEN IF ~p.valid THEN [err |-> "BadZipFile", rows |-> <<>>]
              ELSE LET r == ImportAll(CsvOf(p.members), acc) IN
                   IF r.err # "none" THEN r ELSE IngestFrom(Tail(ps), r.rows)
         ELSE IngestFrom(Tail(ps), acc)

ingest_files(file_paths) == IngestFrom(file_paths, <<>>)

---------------------------------------------------------------------------
(* normalize_datetime *)

\* datetime.strptime(value, "%Y-%m-%d %H:%M:%S") on a zero-padded text
ParseYmdHms(s) ==
    IF /\ Len(s) = 19
       /\ s[5] = "-" /\ s[8] = "-" /\ s[11] = " " /\ s[14] = ":" /\ s[17] = ":"
       /\ AllDigits(s, {1, 2, 3, 4, 6, 7, 9, 10, 12, 13, 15, 16, 18, 19})
       /\ Num2(s, 6) \in 1..12 /\ Num2(s, 9) \in 1..31
       /\ Num2(s, 12) \in 0..23 /\ Num2(s, 15) \in 0..59 /\ Num2(s, 18) \in 0..59
    THEN [ok |-> TRUE,
          dt |-> [y |-> 100 * Num2(s, 1) + Num2(s, 3), m |-> Num2(s, 6),
                  d |-> Num2(s, 9), H |-> Num2(s, 12), M |-> Num2(s, 15),
                  S |-> Num2(s, 18), us |-> 0]]
    ELSE [ok |-> FALSE]

\* datetime.strptime(value, "%m/%d/%y %H:%M") on a zero-padded text
ParseMdyHm(s) ==
    IF /\ Len(s) = 14
       /\ s[3] = "/" /\ s[6] = "/" /\ s[9] = " " /\ s[12] = ":"
       /\ AllDigits(s, {1, 2, 4, 5, 7, 8, 10, 11, 13, 14})
       /\ Num2(s, 1) \in 1..12 /\ Num2(s, 4) \in 1..31
       /\ Num2(s, 10) \in 0..23 /\ Num2(s, 13) \in 0..59
    THEN [ok |-> TRUE,
          dt |-> [y |-> (IF Num2(s, 7) >= 69 THEN 1900 ELSE 2000) + Num2(s, 7),
                  m |-> Num2(s, 1), d |-> Num2(s, 4), H |-> Num2(s, 10),
                  M |-> Num2(s, 13), S |-> 0, us |-> 0]]
    ELSE [ok |-> FALSE]

\* a variant that falls back to a fixed date where no format parses
normalize_datetime_Coerce(value) ==
    LET first == ParseYmdHms(value)
        second == ParseMdyHm(value)
    IN IF first.ok THEN first
       ELSE IF second.ok THEN second
       ELSE [ok |-> TRUE,
             dt |-> [y |-> 1970, m |-> 1, d |-> 1, H |-> 0, M |-> 0, S |-> 0, us |-> 0]]

\* the first format that parses; ok = FALSE stands for the ValueError
normalize_datetime(value) ==
    LET first == ParseYmdHms(value)
        second == ParseMdyHm(value)
    IN IF first.ok THEN first ELSE IF second.ok THEN second ELSE [ok |-> FALSE]

\* datetime comparison
DtKey(t) == <<t.y, t.m, t.d, t.H, t.M, t.S, t.us>>

RECURSIVE LexLeq(_, _)
LexLeq(a, b) ==
    IF a = <<>> THEN TRUE
    ELSE IF Head(a) < Head(b) THEN TRUE
    ELSE IF Head(a) > Head(b) THEN FALSE
    ELSE LexLeq(Tail(a), Tail(b))

DtLeq(a, b) == LexLeq(DtKey(a), DtKey(b))

\* Series.dt.normalize(): midnight of the same day
DtNormalize(t) == [t EXCEPT !.H = 0, !.M = 0, !.S = 0, !.us = 0]

---------------------------------------------------------------------------
(* DataFrame helpers: a frame is the sequence of its rows *)

\* df[mask] is SelectSeq(df, mask)

\* Series.unique(): the distinct values in order of first appearance
RECURSIVE Unique(_, _)
Unique(s, seen) ==
    IF s = <<>> THEN <<>>
    ELSE IF Head(s) \in seen THEN Unique(Tail(s), seen)
    ELSE <<Head(s)>> \o Unique(Tail(s), seen \cup {Head(s)})

Values(s) == {s[i] : i \in 1..Len(s)}

\* Series.nunique()
nunique(s) == Cardinality(Values(s))

\* item in list
Contains(list, x) == \E i \in 1..Len(list) : list[i] = x

\* sorted() of a set of datetimes
RECURSIVE SortedDts(_)
SortedDts(S) ==
    IF S = {} THEN <<>>
    ELSE LET lo == CHOOSE a \in S : \A b \in S : DtLeq(a, b)
         IN <<lo>> \o SortedDts(S \ {lo})

\* the characters of the inputs in code-point order
CodePoints ==
    <<" ", "-", "0", "1", "2", "3", "4", "5", "6", "7", "8", "9", "A", "B", "F", "R",
      "a", "b", "c", "d", "e", "g", "l", "n", "o", "p", "r", "s", "t", "u", "x", "|">>

Ord(c) == CHOOSE i \in 1..Len(CodePoints) : CodePoints[i] = c

\* str comparison: a <= b
RECURSIVE StrLeq(_, _)
StrLeq(a, b) ==
    IF a = <<>> THEN TRUE
    ELSE IF b = <<>> THEN FALSE
    ELSE IF Ord(Head(a)) < Ord(Head(b)) THEN TRUE
    ELSE IF Ord(Head(a)) > Ord(Head(b)) THEN FALSE
    ELSE StrLeq(Tail(a), Tail(b))

\* sorted() of a set of strings
RECURSIVE SortedStrs(_)
SortedStrs(S) ==
    IF S = {} THEN <<>>
    ELSE LET lo == CHOOSE a \in S : \A b \in S : StrLeq(a, b)
         IN <<lo>> \o SortedStrs(S \ {lo})

---------------------------------------------------------------------------
(* Formatting *)

Digit2(n) == <<Digits[(n \div 10) + 1], Digits[(n % 10) + 1]>>

MonthAbbr ==
    <<<<"J","a","n">>, <<"F","e","b">>, <<"M","a","r">>, <<"A","p","r">>,
      <<"M","a","y">>, <<"J","u","n">>, <<"J","u","l">>, <<"A","u","g">>,
      <<"S","e","p">>, <<"O","c","t">>, <<"N","o","v">>, <<"D","e","c">>>>

\* day.strftime('%d-%b')
DayLabel(t) == Digit2(t.d) \o <<"-">> \o MonthAbbr[t.m]

\* str(timestamp)
DtStr(t) ==
    Digit2(t.y \div 100) \o Digit2(t.y % 100) \o <<"-">> \o Digit2(t.m) \o <<"-">>
        \o Digit2(t.d) \o <<" ">> \o Digit2(t.H) \o <<":">> \o Digit2(t.M) \o <<":">>
        \o Digit2(t.S)

\* a cell value: a number, a str computed from the data, or a str literal
Num(n) == [n |-> n]
Str(s) == [s |-> s]
Lit(l) == [lit |-> l]

\* worksheet.write(row, col, value) with zero-based row and col; cell formats
\* are not modelled
W(row, col, val) == [row |-> row, col |-> col, val |-> val]

ColLetter == [A |-> 0, B |-> 1, C |-> 2, D |-> 3, E |-> 4]

\* worksheet.write('C6', value): A1 notation, one-based row
WA1(letter, row, val) == W(row - 1, ColLetter[letter], val)

Spaces(n) == [i \in 1..n |-> " "]

---------------------------------------------------------------------------
(* generate_site_report *)

\* sheet_name[:31]
SheetNameLimit == 31

\* base_col = 5 + (idx * 2)
FirstDayCol == 5

\* cursor = 8
FirstCursor == 8

BaseCol(idx) == FirstDayCol + (idx * 2)

\* the day filter without dt.normalize(): session_date itself against the day
OnDay_NotNormalized(df, day) == LET mask(r) == r.session_date = day IN SelectSeq(df, mask)

\* df[df['session_date'].dt.normalize() == day]
OnDay(df, day) == LET mask(r) == DtNormalize(r.session_date) = day IN SelectSeq(df, mask)

Macs(df) == LET col(r) == r.client_mac IN [rix \in 1..Len(df) |-> col(df[rix])]

\* the two cells of day column idx on a row: len(day_df) and
\* day_df['client_mac'].nunique()
DayPair(df, row, idx, day) ==
    LET day_df == OnDay(df, day)
    IN <<W(row, BaseCol(idx), Num(Len(day_df))),
         W(row, BaseCol(idx) + 1, Num(nunique(Macs(day_df))))>>

\* for i, day in enumerate(date_cols): the day cells of one data row
RECURSIVE DayCells(_, _, _, _)
DayCells(df, row, date_cols, i) ==
    IF i >= Len(date_cols) THEN <<>>
    ELSE DayPair(df, row, i, date_cols[i + 1]) \o DayCells(df, row, date_cols, i + 1)

\* the day headers loop
RECURSIVE DayHeaders(_, _, _)
DayHeaders(df, date_cols, idx) ==
    IF idx >= Len(date_cols) THEN <<>>
    ELSE <<W(5, BaseCol(idx), Str(DayLabel(date_cols[idx + 1]))),
           W(6, BaseCol(idx), Lit("Sessions")),
           W(6, BaseCol(idx) + 1, Lit("Users"))>>
         \o DayPair(df, 7, idx, date_cols[idx + 1])
         \o DayHeaders(df, date_cols, idx + 1)

\* sorted(df['end_time'].tolist())
Timeset(df) == SortedDts({df[i].end_time : i \in 1..Len(df)})

TimeRange(df, date_cols) ==
    LET total_col == FirstDayCol + (Len(date_cols) * 2)
        timeset == Timeset(df)
    IN <<W(4, total_col + 2, Lit("Time Stamps from Client Summary")),
         W(5, total_col + 2, Lit("Start time:")),
         W(5, total_col + 3, Str(DtStr(timeset[1]))),
         W(6, total_col + 2, Lit("End time:")),
         W(6, total_col + 3, Str(DtStr(timeset[Len(timeset)])))>>

\* one SSID row per value of loc_df['ssid'].unique()
RECURSIVE SsidRows(_, _, _, _)
SsidRows(loc_df, ssids, cursor0, date_cols) ==
    IF ssids = <<>> THEN <<>>
    ELSE LET ssid == Head(ssids)
             mask(r) == r.ssid = ssid
             ssid_df == SelectSeq(loc_df, mask)
             cursor == cursor0 + 1
         IN <<WA1("B", cursor, Str(Spaces(4) \o ssid)),
              WA1("C", cursor, Num(Len(ssid_df))),
              WA1("D", cursor, Num(nunique(Macs(ssid_df))))>>
            \o DayCells(ssid_df, cursor - 1, date_cols, 0)
            \o SsidRows(loc_df, Tail(ssids), cursor, date_cols)

\* the grouping column without the aggregate_floors switch
GroupCol_AlwaysSublocation(r, aggregate_floors) == r.sublocation

\* group_col = "building" if aggregate_floors else "sublocation"
GroupCol(r, aggregate_floors) == IF aggregate_floors THEN r.building ELSE r.sublocation

\* one row per value of loc_df[group_col].dropna().unique()
RECURSIVE SubRows(_, _, _, _, _)
SubRows(loc_df, names, cursor0, date_cols, aggregate_floors) ==
    IF names = <<>> THEN <<>>
    ELSE LET name == Head(names)
             mask(r) == GroupCol(r, aggregate_floors) = name
             sub_df == SelectSeq(loc_df, mask)
             cursor == cursor0 + 1
         IN <<WA1("A", cursor, Str(Spaces(8) \o name)),
              WA1("C", cursor, Num(Len(sub_df))),
              WA1("D", cursor, Num(nunique(Macs(sub_df))))>>
            \o DayCells(sub_df, cursor - 1, date_cols, 0)
            \o SubRows(loc_df, Tail(names), cursor, date_cols, aggregate_floors)

\* for location in df['location'].unique(): the location row, its SSID rows,
\* its building or sublocation rows
RECURSIVE DataRows(_, _, _, _, _)
DataRows(df, locations, cursor0, date_cols, aggregate_floors) ==
    IF locations = <<>> THEN <<>>
    ELSE LET location == Head(locations)
             mask(r) == r.location = location
             loc_df == SelectSeq(df, mask)
             cursor == cursor0 + 1
             scol(r) == r.ssid
             gcol(r) == GroupCol(r, aggregate_floors)
             ssids == Unique([rix \in 1..Len(loc_df) |-> scol(loc_df[rix])], {})
             names == Unique([rix \in 1..Len(loc_df) |-> gcol(loc_df[rix])], {})
         IN <<WA1("A", cursor, Str(Spaces(4) \o location)),
              WA1("C", cursor, Num(Len(loc_df))),
              WA1("D", cursor, Num(nunique(Macs(loc_df))))>>
            \o DayCells(loc_df, cursor - 1, date_cols, 0)
            \o SsidRows(loc_df, ssids, cursor, date_cols)
            \o SubRows(loc_df, names, cursor + Len(ssids), date_cols, aggregate_floors)
            \o DataRows(df, Tail(locations), cursor + Len(ssids) + Len(names),
                        date_cols, aggregate_floors)

\* the write calls of one sheet, in the order the code makes them
SheetWrites(df, sheet_name, date_cols, aggregate_floors) ==
    LET lcol(r) == r.location IN
    <<WA1("A", 1, Lit("WiFi Statistics Summary Report")),
      WA1("A", 2, Str(sheet_name)),
      WA1("C", 4, Lit("Client User Summary")),
      WA1("C", 5, Lit("Number of Sessions")),
      WA1("D", 5, Lit("Number of Users")),
      WA1("C", 6, Num(Len(df))),
      WA1("D", 6, Num(nunique(Macs(df)))),
      WA1("A", 8, Lit("Locations")),
      WA1("B", 8, Lit("SSID")),
      WA1("C", 8, Lit("Number of Sessions")),
      WA1("D", 8, Lit("Number of Users")),
      WA1("E", 8, Lit(""))>>
    \o DayHeaders(df, date_cols, 0)
    \o TimeRange(df, date_cols)
    \o DataRows(df, Unique([rix \in 1..Len(df) |-> lcol(df[rix])], {}), FirstCursor, date_cols,
                aggregate_floors)

SheetNames(workbook) == {workbook.sheets[i].name : i \in 1..Len(workbook.sheets)}

\* generate_site_report on a workbook no call has failed on.  add_worksheet
\* raises DuplicateWorksheetName for a name the workbook already holds; on an
\* empty frame, mode()[0] of the empty month series raises KeyError after the
\* sheet was added and before anything is written to it.  "requested" keeps
\* the names add_worksheet was called with, "df" and "aggregate_floors" the
\* arguments the sheet was rendered from.
generate_site_report(workbook, df, sheet_name, date_cols, aggregate_floors) ==
    LET name == Slice(sheet_name, SheetNameLimit)
        asked == [workbook EXCEPT !.requested = Append(@, name)]
        sheet(writes) == [name |-> name, df |-> df,
                          aggregate_floors |-> aggregate_floors, writes |-> writes]
    IN IF name \in SheetNames(workbook)
       THEN [asked EXCEPT !.err = "DuplicateWorksheetName"]
       ELSE IF df = <<>>
       THEN [asked EXCEPT !.err = "KeyError", !.sheets = Append(@, sheet(<<>>))]
       ELSE [asked EXCEPT !.sheets = Append(@,
                sheet(SheetWrites(df, sheet_name, date_cols, aggregate_floors)))]

---------------------------------------------------------------------------
(* generate_excel_report *)

\* an optional argument: <<>> is None, <<v>> is v
None == <<>>
Some(v) == <<v>>

\* df['start_time'].apply(normalize_datetime), df['end_time'].apply(...)
Parsed(data) ==
    [i \in 1..Len(data) |->
        [start_time |-> normalize_datetime(data[i].start_time),
         end_time |-> normalize_datetime(data[i].end_time)]]

\* apply raises the ValueError of the first value that does not parse
AllParse(parsed) ==
    \A i \in 1..Len(parsed) : parsed[i].start_time.ok /\ parsed[i].end_time.ok

\* a row with start_time and end_time parsed and the derived columns
\* session_date (= end_time) and building
Derive(r, times) ==
    [location |-> r.location, sublocation |-> r.sublocation, ssid |-> r.ssid,
     client_mac |-> r.client_mac,
     start_time |-> times.start_time.dt,
     end_time |-> times.end_time.dt,
     session_date |-> times.end_time.dt,
     building |-> strip(BeforePipe(r.sublocation))]

\* if date_from: df = df[df['session_date'] >= date_from]
KeepFrom(r, date_from) == date_from = None \/ DtLeq(date_from[1], r.session_date)

\* if date_to: df = df[df['session_date'] <= date_to]
KeepTo(r, date_to) == date_to = None \/ DtLeq(r.session_date, date_to[1])

DateFilter(df, date_from, date_to) ==
    LET mask(r) == KeepFrom(r, date_from) /\ KeepTo(r, date_to) IN SelectSeq(df, mask)

\* the day list without unique(): one entry per row
DateCols_NotUnique(df) ==
    LET days == SortedDts({DtNormalize(df[i].session_date) : i \in 1..Len(df)})
        count(day) == Cardinality({i \in 1..Len(df) : DtNormalize(df[i].session_date) = day})
        F[k \in 0..Len(days)] ==
            IF k = 0 THEN <<>> ELSE F[k - 1] \o [i \in 1..count(days[k]) |-> days[k]]
    IN F[Len(days)]

\* sorted(df['session_date'].dt.normalize().unique())
DateCols(df) == SortedDts({DtNormalize(df[i].session_date) : i \in 1..Len(df)})

\* df[df['location'].isin(selected_sites)]
InSites(df, selected_sites) ==
    LET mask(r) == Contains(selected_sites, r.location) IN SelectSeq(df, mask)

\* df[df['location'] == site]
AtSite(df, site) == LET mask(r) == r.location = site IN SelectSeq(df, mask)

\* the combined sheet
AggregateReport(workbook, df, selected_sites, date_cols, aggregate_floors) ==
    IF Len(selected_sites) > 1
    THEN generate_site_report(workbook, InSites(df, selected_sites),
                              <<"R", "e", "p", "o", "r", "t">>, date_cols,
                              aggregate_floors)
    ELSE workbook

\* for site in selected_sites; an exception ends the loop
RECURSIVE SiteReports(_, _, _, _, _)
SiteReports(workbook, df, sites, date_cols, aggregate_floors) ==
    IF sites = <<>> \/ workbook.err # "none" THEN workbook
    ELSE SiteReports(
            LET site_df == AtSite(df, Head(sites))
            IN IF site_df # <<>>
               THEN generate_site_report(workbook, site_df, Head(sites), date_cols,
                                         aggregate_floors)
               ELSE workbook,
            df, Tail(sites), date_cols, aggregate_floors)

BldgPrefix == <<"B", "l", "d", "g", " ", "-", " ">>

\* for building in sorted(building_df['building'].dropna().unique())
RECURSIVE BuildingReports(_, _, _, _)
BuildingReports(workbook, building_df, buildings, date_cols) ==
    IF buildings = <<>> \/ workbook.err # "none" THEN workbook
    ELSE LET building == Head(buildings)
             mask(r) == r.building = building
             bldg_df == SelectSeq(building_df, mask)
             sheet_name == Slice(BldgPrefix \o building, SheetNameLimit)
         IN BuildingReports(
                IF bldg_df = <<>> THEN workbook
                ELSE generate_site_report(workbook, bldg_df, sheet_name, date_cols, TRUE),
                building_df, Tail(buildings), date_cols)

\* xlsxwriter.Workbook(output_path); "filtered" keeps the frame as the date
\* filter left it, "closed" tells whether workbook.close() wrote the file
NewWorkbook ==
    [sheets |-> <<>>, requested |-> <<>>, filtered |-> <<>>, err |-> "none",
     closed |-> FALSE]

generate_excel_report(data, selected_sites, date_from, date_to, aggregate_floors, tab_per_building) ==
    LET parsed == Parsed(data) IN
    IF ~AllParse(parsed) THEN [NewWorkbook EXCEPT !.err = "ValueError"]
    ELSE
    LET df == DateFilter([i \in 1..Len(data) |-> Derive(data[i], parsed[i])],
                         date_from, date_to)
        date_cols == DateCols(df)
        w1 == AggregateReport([NewWorkbook EXCEPT !.filtered = df], df, selected_sites,
                              date_cols, aggregate_floors)
        w2 == SiteReports(w1, df, selected_sites, date_cols, aggregate_floors)
        building_df == InSites(df, selected_sites)
        w3 == IF aggregate_floors /\ tab_per_building
              THEN BuildingReports(w2, building_df,
                        SortedStrs({building_df[i].building : i \in 1..Len(building_df)}),
                        date_cols)
              ELSE w2
    IN IF w3.err = "none" THEN [w3 EXCEPT !.closed = TRUE] ELSE w3

---------------------------------------------------------------------------
(* Inputs *)

SiteA == <<"A">>
SiteReport == <<"R", "e", "p", "o", "r", "t">>

Guest == <<"G", "u", "e", "s", "t">>
Corp == <<"C", "o", "r", "p">>

MacAA == <<"A", "A", ":", "B", "B">>
MacCC == <<"C", "C", ":", "D", "D">>

\* "2024-01-dd HH:MM:SS"
YmdHms(d, H, M, S) ==
    <<"2", "0", "2", "4", "-", "0", "1", "-">> \o Digit2(d) \o <<" ">> \o Digit2(H)
        \o <<":">> \o Digit2(M) \o <<":">> \o Digit2(S)

\* "01/dd/24 HH:MM"
MdyHm(d, H, M) ==
    <<"0", "1", "/">> \o Digit2(d) \o <<"/", "2", "4", " ">> \o Digit2(H) \o <<":">>
        \o Digit2(M)

NotADate == <<"n", "o", "t", "-", "a", "-", "d", "a", "t", "e">>

\* datetime(2024, 1, d, H, M, S, us)
Dt(d, H, M, S, us) == [y |-> 2024, m |-> 1, d |-> d, H |-> H, M |-> M, S |-> S, us |-> us]

\* datetime.combine(date, datetime.min.time())
DayMin(d) == Dt(d, 0, 0, 0, 0)

\* datetime.combine(date, datetime.max.time())
DayMax(d) == Dt(d, 23, 59, 59, 999999)

Days == 1..MaxDay

\* a session record as csv_import returns it, with the columns the report reads
Session(location, sublocation, ssid, client_mac, start_time, end_time) ==
    [location |-> location, sublocation |-> sublocation, ssid |-> ssid,
     client_mac |-> client_mac, start_time |-> start_time, end_time |-> end_time]

\* the sessions of day d: a session on one floor of building B1 of site A, a
\* session of the site called "Report" in a building named with blanks around
\* it, written in the second timestamp format and ending in the last minute
\* of the day, and a session on another floor of B1 that ends at midnight
SessionsOn(d) ==
    <<Session(SiteA, <<"B", "1", "|", "F", "1">>, Guest, MacAA,
              YmdHms(d, 8, 0, 0), YmdHms(d, 8, 30, 0)),
      Session(SiteReport, <<" ", "B", "2", " ", "|", "F", "1">>, Corp, MacCC,
              MdyHm(d, 13, 45), MdyHm(d, 23, 59)),
      Session(SiteA, <<"B", "1", "|", "F", "2">>, Guest, MacCC,
              YmdHms(d, 0, 0, 0), YmdHms(d, 0, 0, 0))>>

RECURSIVE SessionsUpTo(_)
SessionsUpTo(d) == IF d = 0 THEN <<>> ELSE SessionsUpTo(d - 1) \o SessionsOn(d)

SessionPool == SessionsUpTo(MaxDay)

NonDecreasing(idx) == \A i \in 1..(Len(idx) - 1) : idx[i] <= idx[i + 1]

\* the record tables of a call: 1..MaxRecords sessions of the pool, a session
\* possibly more than once, in the order of the pool
DataSets ==
    UNION {{[i \in 1..n |-> SessionPool[idx[i]]] :
                idx \in {f \in [1..n -> 1..Len(SessionPool)] : NonDecreasing(f)}} :
           n \in 1..MaxRecords}

\* selected_sites: one site, or both in either order
SiteLists == {<<SiteA>>, <<SiteReport>>, <<SiteA, SiteReport>>, <<SiteReport, SiteA>>}

\* date_from, date_to: no bound, one day as the form passes it (from its first
\* to its last microsecond), a lower bound alone, or an upper bound alone given
\* as the day itself
DateRanges ==
    {<<None, None>>}
        \cup {<<Some(DayMin(d)), Some(DayMax(d))>> : d \in Days}
        \cup {<<Some(DayMin(d)), None>> : d \in Days}
        \cup {<<None, Some(DayMin(d))>> : d \in Days}

ReportArgs ==
    {[data |-> data, selected_sites |-> sites, date_from |-> range[1],
      date_to |-> range[2], aggregate_floors |-> flags[1], tab_per_building |-> flags[2]] :
        data \in DataSets, sites \in SiteLists, range \in DateRanges,
        flags \in BOOLEAN \X BOOLEAN}

---------------------------------------------------------------------------
(* Inputs of csv_import and ingest_files *)

Triggers == <<Chars.location, Chars.sublocation, Chars.associate_vlan, Chars.device_mac>>

\* header rows: the four trigger columns alone, in another order, behind a
\* column the schema does not know, followed by ssid, and with one missing
HeaderRows ==
    {Triggers,
     <<Chars.device_mac, Chars.associate_vlan, Chars.sublocation, Chars.location>>,
     <<<<"i", "d">>>> \o Triggers,
     Triggers \o <<Chars.ssid>>,
     <<Chars.location, Chars.sublocation, Chars.device_mac>>}

\* a data row of n cells: cell i holds the digit i between two blanks
DataRow(n) == [i \in 1..n |-> <<" ", Digits[i + 1], " ">>]

RowPool == HeaderRows \cup {DataRow(n) : n \in 0..MaxRowLen}

\* the CSV files: up to MaxRows rows
CsvFiles == UNION {[1..n -> RowPool] : n \in 0..MaxRows}

File(name, rows) == [name |-> name, rows |-> rows]
Archive(name, valid, members) == [name |-> name, valid |-> valid, members |-> members]

\* a file with a header row and one record
GoodRows == <<Triggers, DataRow(4)>>
GoodCsv == File(<<"g", ".", "c", "s", "v">>, GoodRows)

\* file_paths around a CSV file of the given rows: alone, after and before a
\* good file, under an upper-case extension, inside an archive beside a good
\* file and a text file, after an archive zipfile cannot open, and under an
\* extension ingest_files does not read
PathLists(rows) ==
    {<<File(<<"x", ".", "c", "s", "v">>, rows)>>,
     <<GoodCsv, File(<<"x", ".", "c", "s", "v">>, rows)>>,
     <<File(<<"x", ".", "C", "S", "V">>, rows), GoodCsv>>,
     <<Archive(<<"a", ".", "z", "i", "p">>, TRUE,
               <<GoodCsv, File(<<"r", ".", "t", "x", "t">>, rows),
                 File(<<"x", ".", "c", "s", "v">>, rows)>>)>>,
     <<Archive(<<"b", ".", "Z", "I", "P">>, FALSE, <<>>),
       File(<<"x", ".", "c", "s", "v">>, rows)>>,
     <<File(<<"x", ".", "t", "x", "t">>, rows), GoodCsv>>}

---------------------------------------------------------------------------
(* ReportUI *)

\* a QDate is <<year, month, day>>
QDate(y, m, d) == <<y, m, d>>

DateLeq(a, b) == LexLeq(a, b)
DateMax(a, b) == IF DateLeq(a, b) THEN b ELSE a
DateMin(a, b) == IF DateLeq(a, b) THEN a ELSE b

\* a QDateEdit as constructed: date 2000-01-01 within 1752-09-14..9999-12-31
NewDateEdit ==
    [date |-> QDate(2000, 1, 1), min |-> QDate(1752, 9, 14), max |-> QDate(9999, 12, 31)]

\* the widget keeps its date within its range
Bound(w) == [w EXCEPT !.date = DateMax(w.min, DateMin(@, w.max))]

\* QDateEdit.setDate, setMinimumDate, setMaximumDate
setDate(w, date) == Bound([w EXCEPT !.date = date])
setMinimumDate(w, date) == Bound([w EXCEPT !.min = date, !.max = DateMax(@, date)])
setMaximumDate(w, date) == Bound([w EXCEPT !.max = date, !.min = DateMin(@, date)])

\* ReportUI.__init__
NewUI ==
    [data |-> <<>>, site_list |-> <<>>, date_from |-> NewDateEdit,
     date_to |-> NewDateEdit, dates_enabled |-> FALSE, combine_floors |-> FALSE,
     tab_per_building |-> FALSE, tab_enabled |-> FALSE, msg |-> "none",
     last |-> "init"]

\* the date-bounds scan of load_csv: the end_time of every row that has one
\* and whose end_time parses; the other rows are passed over
ScanDates(data) ==
    {normalize_datetime(data[i].end_time).dt :
        i \in {j \in 1..Len(data) :
                /\ "end_time" \in DOMAIN data[j]
                /\ data[j].end_time # <<>>
                /\ normalize_datetime(data[j].end_time).ok}}

\* min(dates), max(dates)
MinDt(S) == CHOOSE a \in S : \A b \in S : DtLeq(a, b)
MaxDt(S) == CHOOSE a \in S : \A b \in S : DtLeq(b, a)

DateOfDt(t) == QDate(t.y, t.m, t.d)

\* the setDate and set...Date calls of load_csv on date_from, in their order
LoadDateFrom(w, min_date, max_date) ==
    setMaximumDate(
        setMinimumDate(
            setDate(setMinimumDate(w, QDate(1900, 1, 1)), DateOfDt(min_date)),
            DateOfDt(min_date)),
        DateOfDt(max_date))

\* and on date_to
LoadDateTo(w, min_date, max_date) ==
    setMaximumDate(
        setMinimumDate(
            setDate(setMaximumDate(w, QDate(3000, 1, 1)), DateOfDt(max_date)),
            DateOfDt(min_date)),
        DateOfDt(max_date))

\* sorted(set(d['location'] for d in self.data))
SitesOf(data) == SortedStrs({data[i].location : i \in 1..Len(data)})

\* load_csv with the files the dialog returned
load_csv(u, file_paths) ==
    LET shown(m) == [u EXCEPT !.msg = m, !.last = "load_csv"]
        got == ingest_files(file_paths)
        dates == ScanDates(got.rows)
    IN IF file_paths = <<>> THEN shown("none")
       ELSE IF got.err # "none" THEN shown("Failed to load files")
       ELSE IF got.rows = <<>> THEN [shown("No Data") EXCEPT !.data = got.rows]
       ELSE IF dates = {} THEN [shown("No Valid Dates") EXCEPT !.data = got.rows]
       ELSE [shown("none") EXCEPT
                !.data = got.rows,
                !.date_from = LoadDateFrom(@, MinDt(dates), MaxDt(dates)),
                !.date_to = LoadDateTo(@, MinDt(dates), MaxDt(dates)),
                !.dates_enabled = TRUE,
                !.site_list = SitesOf(got.rows)]

\* toggle_combine_floors, as the state of combine_floors_cb changes
toggle_combine_floors(u) ==
    IF u.combine_floors
    THEN [u EXCEPT !.combine_floors = FALSE, !.tab_per_building = FALSE,
                   !.tab_enabled = FALSE, !.msg = "none", !.last = "toggle"]
    ELSE [u EXCEPT !.combine_floors = TRUE, !.tab_enabled = TRUE, !.msg = "none",
                   !.last = "toggle"]

\* datetime.combine(date, time)
Combine(date, H, M, S, us) ==
    [y |-> date[1], m |-> date[2], d |-> date[3], H |-> H, M |-> M, S |-> S, us |-> us]

\* the arguments generate_report passes for the selected items
ReportCall(u, selected_sites) ==
    [data |-> u.data, selected_sites |-> selected_sites,
     date_from |-> Some(Combine(u.date_from.date, 0, 0, 0, 0)),
     date_to |-> Some(Combine(u.date_to.date, 23, 59, 59, 999999)),
     aggregate_floors |-> u.combine_floors, tab_per_building |-> u.tab_per_building]

\* which message generate_report ends with
ReportMsg(u, selected_sites, workbook) ==
    IF u.data = <<>> THEN "Please load a CSV file first."
    ELSE IF selected_sites = <<>> THEN "Select at least one site."
    ELSE IF workbook.err = "none" THEN "Done" ELSE "Error"

---------------------------------------------------------------------------
(* Specification of generate_excel_report called on its own *)

NotRun == [NewWorkbook EXCEPT !.err = "not run"]

NotCalled == [err |-> "not run", rows |-> <<>>]

NoArgs ==
    [data |-> <<>>, selected_sites |-> <<>>, date_from |-> None, date_to |-> None,
     aggregate_floors |-> FALSE, tab_per_building |-> FALSE]

InitReport ==
    /\ args \in ReportArgs
    /\ wb = NotRun
    /\ csv_rows = <<>> /\ csv_out = NotCalled
    /\ paths = <<>> /\ ingest_out = NotCalled
    /\ ui = NewUI

GenerateExcelReport ==
    /\ wb = NotRun
    /\ wb' = generate_excel_report(args.data, args.selected_sites, args.date_from,
                                   args.date_to, args.aggregate_floors,
                                   args.tab_per_building)
    /\ UNCHANGED <<csv_rows, csv_out, paths, ingest_out, args, ui>>

NextReport == GenerateExcelReport

SpecReport == InitReport /\ [][NextReport]_vars

---------------------------------------------------------------------------
(* Reading a call of generate_excel_report and the sheets it rendered *)

Ran == wb.err \notin {"not run"}

\* the end_time of record i of the call, parsed
EndOf(i) == normalize_datetime(args.data[i].end_time).dt

\* the calendar day of a datetime
DayOf(t) == <<t.y, t.m, t.d>>

\* record i of the call is in the frame the date filter left
Retained(i) ==
    \E j \in 1..Len(wb.filtered) :
        /\ wb.filtered[j].location = args.data[i].location
        /\ wb.filtered[j].sublocation = args.data[i].sublocation
        /\ wb.filtered[j].ssid = args.data[i].ssid
        /\ wb.filtered[j].client_mac = args.data[i].client_mac
        /\ wb.filtered[j].end_time = EndOf(i)

\* record i lies on or after the day of date_from, on or before the day of date_to
InDayRange(i) ==
    /\ args.date_from = None \/ LexLeq(DayOf(args.date_from[1]), DayOf(EndOf(i)))
    /\ args.date_to = None \/ LexLeq(DayOf(EndOf(i)), DayOf(args.date_to[1]))

\* the records of the call the inclusive filter is to keep
InRange == {i \in 1..Len(args.data) : InDayRange(i)}

\* the sheets that were written (a sheet whose rendering raised has no cell)
Rendered == {i \in 1..Len(wb.sheets) : wb.sheets[i].writes # <<>>}

\* the write calls of a sheet on one cell, and the value the cell ends with
WritesAt(sheet, row, col) ==
    LET at(w) == w.row = row /\ w.col = col IN SelectSeq(sheet.writes, at)

Written(sheet, row, col) == WritesAt(sheet, row, col) # <<>>

Cell(sheet, row, col) ==
    LET ws == WritesAt(sheet, row, col) IN ws[Len(ws)].val

\* the rows and columns a sheet has cells on
RowsOf(sheet) == {sheet.writes[k].row : k \in 1..Len(sheet.writes)}
ColsOf(sheet, row) ==
    {sheet.writes[k].col : k \in {j \in 1..Len(sheet.writes) : sheet.writes[j].row = row}}

\* the rows below the header rows: spreadsheet row 9 on
DataRowsOf(sheet) == {r \in RowsOf(sheet) : r >= FirstCursor}

\* the columns headed "Sessions": the first column of each day
SessionCols(sheet) == {c \in ColsOf(sheet, 6) : Cell(sheet, 6, c) = Lit("Sessions")}

RECURSIVE SumOver(_, _, _)
SumOver(sheet, row, cols) ==
    IF cols = {} THEN 0
    ELSE LET c == CHOOSE x \in cols : TRUE
         IN Cell(sheet, row, c).n + SumOver(sheet, row, cols \ {c})

---------------------------------------------------------------------------
(* C1: the date-range filter is inclusive at both bounds *)

\* C1: in every call, a record whose session day (the day of its end_time) is
\* the day given as date_from or as date_to, and which the other bound does
\* not exclude, is in the filtered frame, whatever the time of day it ended.
C1_InclusiveFilter ==
    Ran =>
        \A i \in InRange :
            (\/ args.date_from # None /\ DtNormalize(EndOf(i)) = args.date_from[1]
             \/ args.date_to # None /\ DtNormalize(EndOf(i)) = args.date_to[1])
                => Retained(i)

---------------------------------------------------------------------------
(* C3: an empty filtered frame *)

\* C3: a call whose date filter leaves no row ends without an error, and with
\* more than one selected site its first sheet is the combined sheet "Report",
\* written with 0 sessions and 0 users in C6 and D6 and with no day column.
C3_EmptyFilterRenders ==
    (Ran /\ wb.filtered = <<>>) =>
        /\ wb.err = "none"
        /\ wb.closed
        /\ Len(args.selected_sites) > 1 =>
            /\ Len(wb.sheets) >= 1
            /\ wb.sheets[1].name = SiteReport
            /\ Written(wb.sheets[1], 5, 2) /\ Cell(wb.sheets[1], 5, 2) = Num(0)
            /\ Written(wb.sheets[1], 5, 3) /\ Cell(wb.sheets[1], 5, 3) = Num(0)
            /\ SessionCols(wb.sheets[1]) = {}

---------------------------------------------------------------------------
(* C5: a selected site without rows *)

\* the rows of a site in the filtered frame
SiteRows(site) == {j \in 1..Len(wb.filtered) : wb.filtered[j].location = site}

\* the sheets of a site's own: the sheets named after it, the combined sheet
\* (the first sheet of a call with more than one selected site) apart
OwnSheets(site) ==
    {k \in 1..Len(wb.sheets) :
        /\ wb.sheets[k].name = Slice(site, SheetNameLimit)
        /\ ~(k = 1 /\ Len(args.selected_sites) > 1)}

Selected == Values(args.selected_sites)

\* C5: in a call in which one selected site has no row after the date filter
\* and another has rows, the call ends without an error, the sites without
\* rows have no sheet of their own and every site with rows has exactly one.
C5_EmptySiteSkipped ==
    (/\ Ran
     /\ \E site \in Selected : SiteRows(site) = {}
     /\ \E site \in Selected : SiteRows(site) # {})
        => /\ wb.err = "none"
           /\ wb.closed
           /\ \A site \in Selected :
                Cardinality(OwnSheets(site)) = IF SiteRows(site) = {} THEN 0 ELSE 1

---------------------------------------------------------------------------
(* C7: the day cells of a row add up to its total *)

\* C7: on every rendered sheet, on every row of the location, SSID and
\* building or sublocation rows, the session counts of the day columns add up
\* to the session count in column C.
C7_DaySumsMatchTotal ==
    \A k \in Rendered :
        \A r \in DataRowsOf(wb.sheets[k]) :
            /\ Written(wb.sheets[k], r, 2)
            /\ \A c \in SessionCols(wb.sheets[k]) : Written(wb.sheets[k], r, c)
            /\ SumOver(wb.sheets[k], r, SessionCols(wb.sheets[k]))
                    = Cell(wb.sheets[k], r, 2).n

\* a location row with a total of 2 made of 1 session on each of two days
C7_Witness ==
    \E k \in Rendered :
        \E r \in DataRowsOf(wb.sheets[k]) :
            /\ Written(wb.sheets[k], r, 0)
            /\ Cell(wb.sheets[k], r, 2) = Num(2)
            /\ SessionCols(wb.sheets[k]) = {5, 7}
            /\ Cell(wb.sheets[k], r, 5) = Num(1)
            /\ Cell(wb.sheets[k], r, 7) = Num(1)

---------------------------------------------------------------------------
(* C8: one list of day columns for every sheet of a call *)

\* the distinct calendar days of session_date over the filtered frame
FilteredDays == {DtNormalize(wb.filtered[j].session_date) : j \in 1..Len(wb.filtered)}

\* the list of these days in ascending order, each day once
AscendingDays ==
    CHOOSE days \in [1..Cardinality(FilteredDays) -> FilteredDays] :
        \A i, j \in DOMAIN days : i < j => (days[i] # days[j] /\ DtLeq(days[i], days[j]))

\* the rows of a sheet's frame that lie on a day
RowsOnDay(sheet, day) ==
    {j \in 1..Len(sheet.df) : DtNormalize(sheet.df[j].session_date) = day}

\* C8: on every rendered sheet of a call the day columns are the distinct days
\* of the filtered frame in ascending order, day i (from 0) in columns 5+2i
\* ("Sessions") and 6+2i ("Users"); every data row has exactly these day
\* cells, and on a day on which the sheet's frame has no row they show 0.
C8_SharedDayColumns ==
    \A k \in Rendered :
        LET sheet == wb.sheets[k]
            days == AscendingDays
            n == Len(days)
            cols == {FirstDayCol + 2 * i : i \in 0..(n - 1)}
                        \cup {FirstDayCol + 1 + 2 * i : i \in 0..(n - 1)}
        IN /\ SessionCols(sheet) = {FirstDayCol + 2 * i : i \in 0..(n - 1)}
           /\ \A i \in 0..(n - 1) :
                /\ Cell(sheet, 5, 5 + 2 * i) = Str(DayLabel(days[i + 1]))
                /\ Cell(sheet, 6, 5 + 2 * i) = Lit("Sessions")
                /\ Written(sheet, 6, 6 + 2 * i)
                /\ Cell(sheet, 6, 6 + 2 * i) = Lit("Users")
                /\ Written(sheet, 7, 5 + 2 * i) /\ Written(sheet, 7, 6 + 2 * i)
           /\ \A r \in DataRowsOf(sheet) :
                /\ {c \in ColsOf(sheet, r) : c >= FirstDayCol} = cols
                /\ \A i \in 0..(n - 1) :
                        RowsOnDay(sheet, days[i + 1]) = {} =>
                            /\ Cell(sheet, 7, 5 + 2 * i) = Num(0)
                            /\ Cell(sheet, 7, 6 + 2 * i) = Num(0)
                            /\ Cell(sheet, r, 5 + 2 * i) = Num(0)
                            /\ Cell(sheet, r, 6 + 2 * i) = Num(0)

\* a sheet with two day columns whose frame has no row on the second day
C8_Witness ==
    \E k \in Rendered :
        /\ SessionCols(wb.sheets[k]) = {5, 7}
        /\ Cell(wb.sheets[k], 7, 5) = Num(1)
        /\ Cell(wb.sheets[k], 7, 7) = Num(0)
        /\ Cell(wb.sheets[k], 8, 7) = Num(0)

---------------------------------------------------------------------------
(* C9: the rows of a sheet *)

\* the value a sub row stands for: building when aggregate_floors, else the
\* raw sublocation
GroupOf(sheet, j) ==
    IF sheet.aggregate_floors THEN sheet.df[j].building ELSE sheet.df[j].sublocation

LocationsOf(sheet) == {sheet.df[j].location : j \in 1..Len(sheet.df)}
AtLocation(sheet, loc) == {j \in 1..Len(sheet.df) : sheet.df[j].location = loc}
SsidsAt(sheet, loc) == {sheet.df[j].ssid : j \in AtLocation(sheet, loc)}
GroupsAt(sheet, loc) == {GroupOf(sheet, j) : j \in AtLocation(sheet, loc)}
WithSsid(sheet, loc, ssid) == {j \in AtLocation(sheet, loc) : sheet.df[j].ssid = ssid}
WithGroup(sheet, loc, name) == {j \in AtLocation(sheet, loc) : GroupOf(sheet, j) = name}

UsersOf(sheet, rows) == Cardinality({sheet.df[j].client_mac : j \in rows})

RECURSIVE BlockRows(_, _)
BlockRows(sheet, locs) ==
    IF locs = {} THEN 0
    ELSE LET loc == CHOOSE x \in locs : TRUE
         IN 1 + Cardinality(SsidsAt(sheet, loc)) + Cardinality(GroupsAt(sheet, loc))
                + BlockRows(sheet, locs \ {loc})

\* a row's kind, read off its label: an SSID row is labelled in column B, a
\* location row in column A behind 4 blanks, a building or sublocation row in
\* column A behind 8 blanks
Indented8(label) == Len(label) >= 8 /\ \A i \in 1..8 : label[i] = " "

KindOf(sheet, r) ==
    IF Written(sheet, r, 1) THEN "ssid"
    ELSE IF Indented8(Cell(sheet, r, 0).s) THEN "sub" ELSE "location"

NameOf(sheet, r) ==
    LET label == Cell(sheet, r, IF KindOf(sheet, r) = "ssid" THEN 1 ELSE 0).s
    IN SubSeq(label, IF KindOf(sheet, r) = "sub" THEN 9 ELSE 5, Len(label))

\* the location whose block a row is in: that of the nearest location row at
\* or above it
OwnerOf(sheet, r) ==
    LET above == {q \in DataRowsOf(sheet) : q <= r /\ KindOf(sheet, q) = "location"}
        q == CHOOSE x \in above : \A y \in above : y <= x
    IN NameOf(sheet, q)

\* the frame rows a row of the sheet counts
CountedBy(sheet, r) ==
    IF KindOf(sheet, r) = "location" THEN AtLocation(sheet, NameOf(sheet, r))
    ELSE IF KindOf(sheet, r) = "ssid"
    THEN WithSsid(sheet, OwnerOf(sheet, r), NameOf(sheet, r))
    ELSE WithGroup(sheet, OwnerOf(sheet, r), NameOf(sheet, r))

RowsOfKind(sheet, kind) == {r \in DataRowsOf(sheet) : KindOf(sheet, r) = kind}

SheetRowsOk(sheet) ==
    LET rows == DataRowsOf(sheet) IN
    \* one spreadsheet row per location, SSID and group, without a gap
    /\ rows = FirstCursor..(FirstCursor + BlockRows(sheet, LocationsOf(sheet)) - 1)
    \* each row has one label, one pair of totals and one cell per day column,
    \* each written once
    /\ \A r \in rows :
        /\ Len(WritesAt(sheet, r, 0)) + Len(WritesAt(sheet, r, 1)) = 1
        /\ Len(WritesAt(sheet, r, 2)) = 1 /\ Len(WritesAt(sheet, r, 3)) = 1
        /\ \A c \in SessionCols(sheet) :
                Len(WritesAt(sheet, r, c)) = 1 /\ Len(WritesAt(sheet, r, c + 1)) = 1
    \* a block starts with its location row; SSID rows come before sub rows
    /\ KindOf(sheet, FirstCursor) = "location"
    /\ \A r \in rows :
        KindOf(sheet, r) = "ssid" => KindOf(sheet, r - 1) \in {"location", "ssid"}
    \* every row stands for a value present in the frame and shows its counts
    /\ \A r \in rows :
        /\ CountedBy(sheet, r) # {}
        /\ Cell(sheet, r, 2) = Num(Cardinality(CountedBy(sheet, r)))
        /\ Cell(sheet, r, 3) = Num(UsersOf(sheet, CountedBy(sheet, r)))
    \* and every value has exactly one row
    /\ \A loc \in LocationsOf(sheet) :
        /\ Cardinality({r \in RowsOfKind(sheet, "location") : NameOf(sheet, r) = loc}) = 1
        /\ \A ssid \in SsidsAt(sheet, loc) :
            Cardinality({r \in RowsOfKind(sheet, "ssid") :
                OwnerOf(sheet, r) = loc /\ NameOf(sheet, r) = ssid}) = 1
        /\ \A name \in GroupsAt(sheet, loc) :
            Cardinality({r \in RowsOfKind(sheet, "sub") :
                OwnerOf(sheet, r) = loc /\ NameOf(sheet, r) = name}) = 1

\* C9: every rendered sheet has, for each location of its frame, one block of
\* one location row, then one row per SSID seen there, then one row per
\* building (aggregate_floors) or sublocation seen there; each on a spreadsheet
\* row of its own that holds its label, totals and day cells, and none for a
\* value without rows.
C9_SheetRows == \A k \in Rendered : SheetRowsOk(wb.sheets[k])

\* the sheet "A" of two Guest sessions on two floors of B1, floors not
\* aggregated: location 2/2, Guest 2/2, B1|F1 1/1, B1|F2 1/1
C9_Witness ==
    \E k \in Rendered :
        LET sheet == wb.sheets[k] IN
        /\ sheet.name = SiteA /\ ~sheet.aggregate_floors
        /\ DataRowsOf(sheet) = 8..11
        /\ Cell(sheet, 8, 0) = Str(Spaces(4) \o SiteA)
        /\ Cell(sheet, 8, 2) = Num(2) /\ Cell(sheet, 8, 3) = Num(2)
        /\ Cell(sheet, 9, 1) = Str(Spaces(4) \o Guest)
        /\ Cell(sheet, 9, 2) = Num(2) /\ Cell(sheet, 9, 3) = Num(2)
        /\ Cell(sheet, 10, 0) = Str(Spaces(8) \o <<"B", "1", "|", "F", "1">>)
        /\ Cell(sheet, 10, 2) = Num(1) /\ Cell(sheet, 10, 3) = Num(1)
        /\ Cell(sheet, 11, 0) = Str(Spaces(8) \o <<"B", "1", "|", "F", "2">>)
        /\ Cell(sheet, 11, 2) = Num(1) /\ Cell(sheet, 11, 3) = Num(1)

---------------------------------------------------------------------------
(* C10: sheet names *)

\* C10: the names generate_site_report asks add_worksheet for in one call are
\* pairwise distinct.
C10_DistinctSheetNames ==
    \A i, j \in 1..Len(wb.requested) :
        i # j => wb.requested[i] # wb.requested[j]

---------------------------------------------------------------------------
(* Specification of csv_import and ingest_files called on their own *)

InitCsv ==
    /\ csv_rows \in CsvFiles
    /\ csv_out = NotCalled
    /\ paths \in PathLists(csv_rows)
    /\ ingest_out = NotCalled
    /\ args = NoArgs /\ wb = NotRun
    /\ ui = NewUI

CsvImport ==
    /\ csv_out = NotCalled
    /\ csv_out' = csv_import(csv_rows)
    /\ UNCHANGED <<csv_rows, paths, ingest_out, args, wb, ui>>

IngestFiles ==
    /\ ingest_out = NotCalled
    /\ ingest_out' = ingest_files(paths)
    /\ UNCHANGED <<csv_rows, csv_out, paths, args, wb, ui>>

NextCsv == CsvImport \/ IngestFiles

SpecCsv == InitCsv /\ [][NextCsv]_vars

---------------------------------------------------------------------------
(* C2: a file without a header row *)

\* no row of the file holds the four trigger columns
NoHeaderRow(rows) == \A i \in 1..Len(rows) : \E k \in 1..4 : ~InRow(expected_headers[k], rows[i])

\* the files of file_paths that ingest_files reads as CSV, members of archives
\* included
RECURSIVE CsvRead(_)
CsvRead(ps) ==
    IF ps = <<>> THEN <<>>
    ELSE (IF IsCsv(Head(ps)) THEN <<Head(ps).rows>>
          ELSE IF IsZip(Head(ps)) /\ Head(ps).valid THEN CsvOf(Head(ps).members)
          ELSE <<>>) \o CsvRead(Tail(ps))

\* the records of the files of a list that have a header row
RECURSIVE RecordsOfOthers(_)
RecordsOfOthers(files) ==
    IF files = <<>> THEN <<>>
    ELSE (IF NoHeaderRow(Head(files)) THEN <<>> ELSE csv_import(Head(files)).rows)
            \o RecordsOfOthers(Tail(files))

\* C2: csv_import of a file without a header row returns no record and raises
\* nothing, and ingest_files of a list of readable files some of which have no
\* header row returns the records of the others.
C2_NoHeaderNoRecords ==
    /\ (csv_out # NotCalled /\ NoHeaderRow(csv_rows))
            => csv_out = [err |-> "none", rows |-> <<>>]
    /\ (/\ ingest_out # NotCalled
        /\ \A i \in 1..Len(paths) : IsZip(paths[i]) => paths[i].valid
        /\ \E i \in 1..Len(CsvRead(paths)) : NoHeaderRow(CsvRead(paths)[i])
        /\ \A i \in 1..Len(CsvRead(paths)) :
                NoHeaderRow(CsvRead(paths)[i]) \/ csv_import(CsvRead(paths)[i]).err = "none")
            => ingest_out = [err |-> "none", rows |-> RecordsOfOthers(CsvRead(paths))]

---------------------------------------------------------------------------
(* C4: the rows after the header row *)

\* the rows after the header row that are at least as long as the number of
\* mapped headers
LongEnough(rows) ==
    LET h == HeaderAt(rows)
        n == Cardinality(MappedKeys(rows[h]))
        later == SubSeq(rows, h + 1, Len(rows))
        keep(row) == Len(row) >= n
    IN SelectSeq(later, keep)

\* a row as the record of the trimmed cells under the mapped headers
AsRecord(row, headers) ==
    [key \in MappedKeys(headers) |->
        strip(row[CHOOSE i \in 1..Len(headers) :
                    headers[i] = Chars[key] /\ \A j \in 1..(i - 1) : headers[j] # Chars[key]])]

\* the cell of a row under every mapped header exists
Covers(row, headers) ==
    \A key \in MappedKeys(headers) :
        \A i \in 1..Len(headers) : headers[i] = Chars[key] => i <= Len(row)

\* C4: once the header row is found, csv_import raises nothing and returns one
\* record per later row of at least as many cells as there are mapped headers,
\* holding the trimmed cell under each mapped header; shorter rows are left out.
C4_RowsConverted ==
    (csv_out # NotCalled /\ HeaderAt(csv_rows) # 0) =>
        /\ csv_out.err = "none"
        /\ Len(csv_out.rows) = Len(LongEnough(csv_rows))
        /\ \A j \in 1..Len(csv_out.rows) :
            /\ Covers(LongEnough(csv_rows)[j], csv_rows[HeaderAt(csv_rows)])
            /\ csv_out.rows[j]
                    = AsRecord(LongEnough(csv_rows)[j], csv_rows[HeaderAt(csv_rows)])

---------------------------------------------------------------------------
(* Specification of the form: load, choose, generate *)

\* the columns of the files the form is given
Schema ==
    Triggers \o <<Chars.client_mac, Chars.start_time, Chars.end_time, Chars.ssid>>

CsvRow(location, sublocation, client_mac, start_time, end_time, ssid) ==
    <<location, sublocation, <<"1", "0">>, <<"d", "e", "v">>, client_mac, start_time,
      end_time, ssid>>

\* the file of day d: one session at site A
DayCsv(d) ==
    File(<<"d", Digits[d + 1], ".", "c", "s", "v">>,
         <<Schema, CsvRow(SiteA, <<"B", "1", "|", "F", "1">>, MacAA,
                          YmdHms(d, 8, 0, 0), YmdHms(d, 8, 30, 0), Guest)>>)

\* a session at the site "Report" whose start_time is no timestamp
BadStartCsv ==
    File(<<"s", ".", "c", "s", "v">>,
         <<Schema, CsvRow(SiteReport, <<"B", "2">>, MacCC, NotADate,
                          YmdHms(1, 23, 59, 59), Corp)>>)

\* a session at the site "Report" whose end_time is no timestamp, and one
\* whose end_time is blank
BadEndCsv ==
    File(<<"e", ".", "c", "s", "v">>,
         <<Schema,
           CsvRow(SiteReport, <<"B", "2">>, MacCC, YmdHms(1, 9, 0, 0), NotADate, Corp),
           CsvRow(SiteReport, <<"B", "2">>, MacAA, YmdHms(1, 9, 0, 0), <<" ">>, Corp)>>)

HeaderOnlyCsv == File(<<"h", ".", "c", "s", "v">>, <<Schema>>)
NoHeaderCsv == File(<<"n", ".", "c", "s", "v">>, <<DataRow(4)>>)
BadZip == Archive(<<"b", ".", "z", "i", "p">>, FALSE, <<>>)

RecordFiles == {DayCsv(d) : d \in Days} \cup {BadStartCsv, BadEndCsv}

\* what the file dialog returns: nothing, one file, or two files with records
FileLists ==
    {<<>>}
        \cup {<<f>> : f \in RecordFiles \cup {HeaderOnlyCsv, NoHeaderCsv, BadZip}}
        \cup {<<p[1], p[2]>> : p \in {q \in RecordFiles \X RecordFiles : q[1] # q[2]}}

\* the selected items of site_list, in any order
Selections(site_list) ==
    {<<>>} \cup {<<site_list[i]>> : i \in 1..Len(site_list)}
        \cup {<<site_list[p[1]], site_list[p[2]]>> :
                p \in {q \in (1..Len(site_list)) \X (1..Len(site_list)) : q[1] # q[2]}}

\* the dates the user can pick in a date widget
PickDates == {QDate(2024, 1, d) : d \in Days}

Init ==
    /\ ui = NewUI
    /\ args = NoArgs /\ wb = NotRun
    /\ csv_rows = <<>> /\ csv_out = NotCalled
    /\ paths = <<>> /\ ingest_out = NotCalled

NoReportCall == args' = NoArgs /\ wb' = NotRun
NoIngestCall == ingest_out' = NotCalled

\* ingest_out keeps what ingest_files returned to the handler
LoadCsv ==
    \E file_paths \in FileLists :
        /\ ui' = load_csv(ui, file_paths)
        /\ ingest_out' = IF file_paths = <<>> THEN NotCalled ELSE ingest_files(file_paths)
        /\ NoReportCall
        /\ UNCHANGED <<csv_rows, csv_out, paths>>

ToggleCombineFloors ==
    /\ ui' = toggle_combine_floors(ui)
    /\ NoReportCall /\ NoIngestCall
    /\ UNCHANGED <<csv_rows, csv_out, paths>>

ToggleTabPerBuilding ==
    /\ ui.tab_enabled
    /\ ui' = [ui EXCEPT !.tab_per_building = ~@, !.msg = "none", !.last = "toggle"]
    /\ NoReportCall /\ NoIngestCall
    /\ UNCHANGED <<csv_rows, csv_out, paths>>

PickDateFrom ==
    \E date \in PickDates :
        /\ ui.dates_enabled
        /\ ui' = [ui EXCEPT !.date_from = setDate(@, date), !.msg = "none",
                            !.last = "pick"]
        /\ NoReportCall /\ NoIngestCall
        /\ UNCHANGED <<csv_rows, csv_out, paths>>

PickDateTo ==
    \E date \in PickDates :
        /\ ui.dates_enabled
        /\ ui' = [ui EXCEPT !.date_to = setDate(@, date), !.msg = "none",
                            !.last = "pick"]
        /\ NoReportCall /\ NoIngestCall
        /\ UNCHANGED <<csv_rows, csv_out, paths>>

\* generate_report: generate_excel_report is called when there are data and a
\* selection
GenerateReport ==
    \E selected_sites \in Selections(ui.site_list) :
        LET call == ReportCall(ui, selected_sites)
            called == ui.data # <<>> /\ selected_sites # <<>>
            workbook ==
                IF called
                THEN generate_excel_report(call.data, call.selected_sites, call.date_from,
                                           call.date_to, call.aggregate_floors,
                                           call.tab_per_building)
                ELSE NotRun
        IN /\ args' = IF called THEN call ELSE NoArgs
           /\ wb' = workbook
           /\ ui' = [ui EXCEPT !.msg = ReportMsg(ui, selected_sites, workbook),
                               !.last = "generate_report"]
           /\ NoIngestCall
           /\ UNCHANGED <<csv_rows, csv_out, paths>>

Next ==
    \/ LoadCsv
    \/ ToggleCombineFloors
    \/ ToggleTabPerBuilding
    \/ PickDateFrom
    \/ PickDateTo
    \/ GenerateReport

Spec == Init /\ [][Next]_vars

---------------------------------------------------------------------------
(* Timestamps that match neither format *)

\* the text matches one of the two timestamp formats
MatchesFormat(s) == ParseYmdHms(s).ok \/ ParseMdyHm(s).ok

\* record i of the table has a start_time or an end_time matching neither
BadTimestamp(data, i) ==
    ~MatchesFormat(data[i].start_time) \/ ~MatchesFormat(data[i].end_time)

BadRecords(data) == {i \in 1..Len(data) : BadTimestamp(data, i)}

\* the last handler was generate_report and it called generate_excel_report
\* on a table with such a record
GeneratedWithBad ==
    ui.last = "generate_report" /\ Ran /\ BadRecords(args.data) # {}

\* the last handler was load_csv and ingest_files gave it a table with such a
\* record
LoadedWithBad ==
    /\ ui.last = "load_csv"
    /\ ingest_out.err = "none"
    /\ BadRecords(ingest_out.rows) # {}

\* the report is aborted with the invalid-format error and nothing is produced
ReportAborted ==
    /\ wb.err = "ValueError" /\ wb.sheets = <<>> /\ ~wb.closed
    /\ ui.msg = "Error"

\* the load ran to its end: date bounds and site list are those of the table
LoadCompleted ==
    /\ ui.msg = "none"
    /\ ui.data = ingest_out.rows
    /\ ui.dates_enabled
    /\ ui.site_list = SitesOf(ingest_out.rows)

\* the end_time values of the table that match a format, as datetimes
ValidEnds(data) ==
    {IF ParseYmdHms(data[i].end_time).ok
        THEN ParseYmdHms(data[i].end_time).dt
        ELSE ParseMdyHm(data[i].end_time).dt :
        i \in {j \in 1..Len(data) : MatchesFormat(data[j].end_time)}}

\* C6 (as stated): a record with a start_time or end_time matching neither
\* format aborts the whole report with the invalid-format error and no sheet or
\* workbook, wherever the record is; the load of the same record skips it and
\* is not aborted.
C6_BadTimestampAsStated ==
    /\ GeneratedWithBad => ReportAborted
    /\ LoadedWithBad => LoadCompleted

\* C6: a record with a start_time or end_time matching neither format aborts
\* the whole report with the invalid-format error and no sheet or workbook,
\* wherever the record is; the load raises no error on it and leaves it out of
\* the date bounds, and runs to its end exactly when some record of the table
\* has a valid end_time, stopping at the "No Valid Dates" warning otherwise.
C6_BadTimestamp ==
    /\ GeneratedWithBad => ReportAborted
    /\ LoadedWithBad =>
        /\ ui.msg \in {"none", "No Valid Dates"}
        /\ ui.data = ingest_out.rows
        /\ (ValidEnds(ingest_out.rows) # {}) <=> LoadCompleted
        /\ LoadCompleted =>
            /\ ui.date_from.date = DateOfDt(MinDt(ValidEnds(ingest_out.rows)))
            /\ ui.date_to.date = DateOfDt(MaxDt(ValidEnds(ingest_out.rows)))

\* a report was asked for site A only over a table whose record at the site
\* "Report" has a bad timestamp, after a load that passed over that record
C6_Witness ==
    /\ GeneratedWithBad
    /\ args.selected_sites = <<SiteA>>
    /\ \A i \in BadRecords(args.data) : args.data[i].location = SiteReport
    /\ wb.err = "ValueError"

---------------------------------------------------------------------------
(* C11: the site list and the record table *)

\* the distinct location values of a record table
LocationsIn(data) == {data[i].location : i \in 1..Len(data)}

\* C11: in every state of the form the sites offered for selection are the
\* distinct location values of the record table it holds, and every call of
\* generate_excel_report made by generate_report selects sites of the table it
\* is given.
C11_SitesMatchData ==
    /\ Values(ui.site_list) = LocationsIn(ui.data)
    /\ (ui.last = "generate_report" /\ Ran) =>
            Values(args.selected_sites) \subseteq LocationsIn(args.data)

=============================================================================
